---- MODULE Spec2Model ----
(***************************************************************************)
(* A model of commands/daedalus.go: the Maze type (rooms, icarus, end,     *)
(* StepsTaken), its navigation methods, and the maze generators            *)
(* carvePassagesFrom, kruskal, prim and recursiveDivision.                 *)
(*                                                                         *)
(* A coordinate is a pair <<x, y>>; rooms[y][x] is the room in column x of *)
(* row y, as in the Go slice of slices.  Every random draw of the code     *)
(* (rand.Perm, rand.Intn) and every iteration over a Go map is a           *)
(* nondeterministic choice.                                                *)
(***************************************************************************)
EXTENDS Integers, Sequences, FiniteSets

VARIABLES
    rooms,       \* Maze.rooms: [0..h-1 -> [0..w-1 -> Room]]
    icarus,      \* Maze.icarus
    end,         \* Maze.end
    StepsTaken,  \* Maze.StepsTaken
    pc,          \* which function is running: "new", a generator, or "done"
    algo,        \* the constructor or generator that built rooms
    calls,       \* the pending calls of carvePassagesFrom or divide (a stack)
    edges,       \* kruskal: the edges its loop has not processed yet
    trees,       \* kruskal: the bitmap, room identity -> parent link of its tree
    frontiers,   \* prim: the frontier map (its keys)
    inRooms,     \* prim: the map "in" (its keys)
    op,          \* the Maze method called last
    arg,         \* the coordinate argument of that call (<<>> if none)
    err,         \* the error that call returned
    ret,         \* the Survey that call returned
    moved,       \* history: the number of Move* calls that returned nil
    primJoined,  \* history: while prim's loop runs, its last iteration joined
                 \* room [1] to room [2] (<<>>: none, or prim has returned)
    scores,      \* the package variable scores
    base         \* history: len(scores) when the current maze was created

vars == << rooms, icarus, end, StepsTaken, pc, algo, calls, edges, trees,
           frontiers, inRooms, op, arg, err, ret, moved, primJoined, scores, base >>

genVars == << calls, edges, trees, frontiers, inRooms, primJoined >>
srvVars == << scores, base >>
navVars == << icarus, end, StepsTaken, op, arg, err, ret, moved >>

(***************************************************************************)
(* Bounds of the model.                                                    *)
(***************************************************************************)
\* a generated grid has at most MaxCells rooms (width * height <= MaxCells)
MaxCells == 8
\* kruskal is run on grids of at most KruskalCells rooms
KruskalCells == 6
\* a grid that is navigated has at most NavCells rooms
NavCells == 4
\* Move* is called while StepsTaken is below MaxSteps
MaxSteps == 2
\* SetStartPoint/SetTreasure are called while fewer than MaxMarks flags are set
MaxMarks == 2
MaxScores == 3

Dims(n) == { d \in (1 .. n) \X (1 .. n) : d[1] * d[2] <= n }

(***************************************************************************)
(* mazelib: directions, Survey and Room.                                   *)
(***************************************************************************)
N == "N"
S == "S"
E == "E"
W == "W"

NoSurvey == [Top |-> FALSE, Right |-> FALSE, Bottom |-> FALSE, Left |-> FALSE]
AllWalls == [Top |-> TRUE, Right |-> TRUE, Bottom |-> TRUE, Left |-> TRUE]

NoRoom == [Walls |-> NoSurvey, Visited |-> FALSE, Start |-> FALSE, Treasure |-> FALSE]

\* the Survey field a direction names
Side(d) == CASE d = N -> "Top" [] d = S -> "Bottom" [] d = E -> "Right" [] d = W -> "Left"

\* Room.RmWall(d) and Room.AddWall(d): one wall flag of one room
RmWall(room, d) == [room EXCEPT !.Walls[Side(d)] = FALSE]
AddWall(room, d) == [room EXCEPT !.Walls[Side(d)] = TRUE]

NoErr == "nil"
ErrVictory == "ErrVictory"
ErrOutside == "room outside of maze boundaries"
ErrWall == "Can't walk through walls"
ErrStartInTreasure == "can't start in the treasure"
ErrTreasureAtStart == "can't have the treasure at the start"

(***************************************************************************)
(* The direction tables.                                                   *)
(***************************************************************************)
DX(d) == CASE d = E -> 1 [] d = W -> -1 [] d = S -> 0 [] d = N -> 0
DY(d) == CASE d = E -> 0 [] d = W -> 0 [] d = S -> 1 [] d = N -> -1
OPPOSITE(d) == CASE d = E -> W [] d = W -> E [] d = N -> S [] d = S -> N
DIRECTIONS == << N, W, S, E >>

(***************************************************************************)
(* Maze: size and room access.                                             *)
(***************************************************************************)
Width(rs) == Cardinality(DOMAIN rs[0])
Height(rs) == Cardinality(DOMAIN rs)

Outside(rs, x, y) == x < 0 \/ y < 0 \/ x >= Width(rs) \/ y >= Height(rs)

\* GetRoom: the room and nil, or a fresh zero Room and an error
GetRoom(rs, x, y) ==
    IF Outside(rs, x, y)
    THEN [room |-> NoRoom, err |-> ErrOutside]
    ELSE [room |-> rs[y][x], err |-> NoErr]

Cells(rs) == (0 .. Width(rs) - 1) \X (0 .. Height(rs) - 1)

emptyMaze(xSize, ySize) == [y \in 0 .. ySize - 1 |-> [x \in 0 .. xSize - 1 |-> NoRoom]]

fullMaze(xSize, ySize) ==
    [y \in 0 .. ySize - 1 |-> [x \in 0 .. xSize - 1 |-> [emptyMaze(xSize, ySize)[y][x] EXCEPT !.Walls = AllWalls]]]

(***************************************************************************)
(* Navigation.                                                             *)
(***************************************************************************)
\* LookAround comparing the X coordinates only
LookAround_XOnly(rs, ic, en) ==
    IF en[1] = ic[1]
    THEN [survey |-> NoSurvey, err |-> ErrVictory]
    ELSE LET g == GetRoom(rs, ic[1], ic[2])
         IN  IF g.err # NoErr
             THEN [survey |-> NoSurvey, err |-> NoErr]
             ELSE [survey |-> g.room.Walls, err |-> NoErr]

\* LookAround without the test of m.end against m.icarus
LookAround_NeverVictory(rs, ic, en) ==
    LET g == GetRoom(rs, ic[1], ic[2])
    IN  IF g.err # NoErr
        THEN [survey |-> NoSurvey, err |-> NoErr]
        ELSE [survey |-> g.room.Walls, err |-> NoErr]

\* LookAround: ErrVictory at the treasure, else the survey of Icarus's room
LookAround(rs, ic, en) ==
    IF en[1] = ic[1] /\ en[2] = ic[2]
    THEN [survey |-> NoSurvey, err |-> ErrVictory]
    ELSE LET g == GetRoom(rs, ic[1], ic[2])
         IN  IF g.err # NoErr
             THEN [survey |-> NoSurvey, err |-> NoErr]
             ELSE [survey |-> g.room.Walls, err |-> NoErr]

\* Discover: the walls of the room, or an empty Survey; the error is always nil
Discover(rs, x, y) ==
    LET g == GetRoom(rs, x, y)
    IN  IF g.err # NoErr
        THEN [survey |-> NoSurvey, err |-> NoErr]
        ELSE [survey |-> g.room.Walls, err |-> NoErr]

\* Move* that does not return LookAround's error
Move_IgnoresVictory(rs, ic, en, steps, side, dx, dy) ==
    LET g == GetRoom(rs, ic[1], ic[2])
    IN  IF g.room.Walls[side]
        THEN [icarus |-> ic, StepsTaken |-> steps, err |-> ErrWall]
        ELSE IF GetRoom(rs, ic[1] + dx, ic[2] + dy).err # NoErr
        THEN [icarus |-> ic, StepsTaken |-> steps, err |-> ErrOutside]
        ELSE [icarus |-> << ic[1] + dx, ic[2] + dy >>, StepsTaken |-> steps + 1, err |-> NoErr]

\* Move* without StepsTaken++
Move_NoCount(rs, ic, en, steps, side, dx, dy) ==
    LET la == LookAround(rs, ic, en)
    IN  IF la.err # NoErr
        THEN [icarus |-> ic, StepsTaken |-> steps, err |-> la.err]
        ELSE IF la.survey[side]
        THEN [icarus |-> ic, StepsTaken |-> steps, err |-> ErrWall]
        ELSE IF GetRoom(rs, ic[1] + dx, ic[2] + dy).err # NoErr
        THEN [icarus |-> ic, StepsTaken |-> steps, err |-> ErrOutside]
        ELSE [icarus |-> << ic[1] + dx, ic[2] + dy >>, StepsTaken |-> steps, err |-> NoErr]

\* Move* that counts the step before it looks at the wall
Move_CountsFirst(rs, ic, en, steps, side, dx, dy) ==
    LET la == LookAround(rs, ic, en)
    IN  IF la.err # NoErr
        THEN [icarus |-> ic, StepsTaken |-> steps, err |-> la.err]
        ELSE IF la.survey[side]
        THEN [icarus |-> ic, StepsTaken |-> steps + 1, err |-> ErrWall]
        ELSE IF GetRoom(rs, ic[1] + dx, ic[2] + dy).err # NoErr
        THEN [icarus |-> ic, StepsTaken |-> steps + 1, err |-> ErrOutside]
        ELSE [icarus |-> << ic[1] + dx, ic[2] + dy >>, StepsTaken |-> steps + 1, err |-> NoErr]

\* Move* without the GetRoom check of the neighbour
Move_NoBoundsCheck(rs, ic, en, steps, side, dx, dy) ==
    LET la == LookAround(rs, ic, en)
    IN  IF la.err # NoErr
        THEN [icarus |-> ic, StepsTaken |-> steps, err |-> la.err]
        ELSE IF la.survey[side]
        THEN [icarus |-> ic, StepsTaken |-> steps, err |-> ErrWall]
        ELSE [icarus |-> << ic[1] + dx, ic[2] + dy >>, StepsTaken |-> steps + 1, err |-> NoErr]

\* the body shared by MoveLeft, MoveRight, MoveUp and MoveDown: the wall flag
\* looked at, and the step (dx, dy)
Move(rs, ic, en, steps, side, dx, dy) ==
    LET la == LookAround(rs, ic, en)
    IN  IF la.err # NoErr
        THEN [icarus |-> ic, StepsTaken |-> steps, err |-> la.err]
        ELSE IF la.survey[side]
        THEN [icarus |-> ic, StepsTaken |-> steps, err |-> ErrWall]
        ELSE IF GetRoom(rs, ic[1] + dx, ic[2] + dy).err # NoErr
        THEN [icarus |-> ic, StepsTaken |-> steps, err |-> ErrOutside]
        ELSE [icarus |-> << ic[1] + dx, ic[2] + dy >>, StepsTaken |-> steps + 1, err |-> NoErr]

Moves == { "MoveLeft", "MoveRight", "MoveUp", "MoveDown" }

\* what each Move* looks at and where it steps
MoveSide(o) == CASE o = "MoveLeft" -> "Left" [] o = "MoveRight" -> "Right"
                 [] o = "MoveUp" -> "Top" [] o = "MoveDown" -> "Bottom"
MoveDX(o) == CASE o = "MoveLeft" -> -1 [] o = "MoveRight" -> 1 [] o = "MoveUp" -> 0 [] o = "MoveDown" -> 0
MoveDY(o) == CASE o = "MoveLeft" -> 0 [] o = "MoveRight" -> 0 [] o = "MoveUp" -> -1 [] o = "MoveDown" -> 1

Marks(rs) ==
    Cardinality({ c \in Cells(rs) : rs[c[2]][c[1]].Start })
    + Cardinality({ c \in Cells(rs) : rs[c[2]][c[1]].Treasure })

\* the coordinates a caller passes: every room, and one coordinate beyond each
\* side of the grid (one for each disjunct of GetRoom's bounds check)
Args(rs) == Cells(rs) \cup { << -1, 0 >>, << 0, -1 >>, << Width(rs), 0 >>, << 0, Height(rs) >> }

DoMove(o) ==
    /\ pc = "done"
    /\ StepsTaken < MaxSteps
    /\ LET r == Move(rooms, icarus, end, StepsTaken, MoveSide(o), MoveDX(o), MoveDY(o))
       IN  /\ icarus' = r.icarus
           /\ StepsTaken' = r.StepsTaken
           /\ err' = r.err
           /\ moved' = IF r.err = NoErr THEN moved + 1 ELSE moved
    /\ op' = o
    /\ arg' = << >>
    /\ ret' = NoSurvey
    /\ UNCHANGED << rooms, end, pc, algo, genVars, srvVars >>

MoveLeft == DoMove("MoveLeft")
MoveRight == DoMove("MoveRight")
MoveUp == DoMove("MoveUp")
MoveDown == DoMove("MoveDown")

CallLookAround ==
    /\ pc = "done"
    /\ LET la == LookAround(rooms, icarus, end)
       IN  /\ err' = la.err
           /\ ret' = la.survey
    /\ op' = "LookAround"
    /\ arg' = << >>
    /\ UNCHANGED << rooms, icarus, end, StepsTaken, moved, pc, algo, genVars, srvVars >>

CallDiscover ==
    /\ pc = "done"
    /\ \E a \in Args(rooms) :
          LET r == Discover(rooms, a[1], a[2])
          IN  /\ err' = r.err
              /\ ret' = r.survey
              /\ arg' = a
    /\ op' = "Discover"
    /\ UNCHANGED << rooms, icarus, end, StepsTaken, moved, pc, algo, genVars, srvVars >>

SetStartPoint ==
    /\ pc = "done"
    /\ Marks(rooms) < MaxMarks
    /\ \E a \in Args(rooms) :
          LET g == GetRoom(rooms, a[1], a[2])
          IN  /\ arg' = a
              /\ IF g.err # NoErr
                 THEN err' = g.err /\ UNCHANGED << rooms, icarus >>
                 ELSE IF g.room.Treasure
                 THEN err' = ErrStartInTreasure /\ UNCHANGED << rooms, icarus >>
                 ELSE /\ rooms' = [rooms EXCEPT ![a[2]][a[1]].Start = TRUE]
                      /\ icarus' = a
                      /\ err' = NoErr
    /\ op' = "SetStartPoint"
    /\ ret' = NoSurvey
    /\ UNCHANGED << end, StepsTaken, moved, pc, algo, genVars, srvVars >>

\* SetTreasure without the test of r.Start
SetTreasure_NoStartTest ==
    /\ pc = "done"
    /\ Marks(rooms) < MaxMarks
    /\ \E a \in Args(rooms) :
          LET g == GetRoom(rooms, a[1], a[2])
          IN  /\ arg' = a
              /\ IF g.err # NoErr
                 THEN err' = g.err /\ UNCHANGED << rooms, end >>
                 ELSE /\ rooms' = [rooms EXCEPT ![a[2]][a[1]].Treasure = TRUE]
                      /\ end' = a
                      /\ err' = NoErr
    /\ op' = "SetTreasure"
    /\ ret' = NoSurvey
    /\ UNCHANGED << icarus, StepsTaken, moved, pc, algo, genVars, srvVars >>

SetTreasure ==
    /\ pc = "done"
    /\ Marks(rooms) < MaxMarks
    /\ \E a \in Args(rooms) :
          LET g == GetRoom(rooms, a[1], a[2])
          IN  /\ arg' = a
              /\ IF g.err # NoErr
                 THEN err' = g.err /\ UNCHANGED << rooms, end >>
                 ELSE IF g.room.Start
                 THEN err' = ErrTreasureAtStart /\ UNCHANGED << rooms, end >>
                 ELSE /\ rooms' = [rooms EXCEPT ![a[2]][a[1]].Treasure = TRUE]
                      /\ end' = a
                      /\ err' = NoErr
    /\ op' = "SetTreasure"
    /\ ret' = NoSurvey
    /\ UNCHANGED << icarus, StepsTaken, moved, pc, algo, genVars, srvVars >>

(***************************************************************************)
(* Construction.  The size is the configured width and height; a new Maze  *)
(* has the zero coordinate for icarus and end and StepsTaken 0.            *)
(***************************************************************************)
InitSize(n) ==
    /\ \E d \in Dims(n) : rooms = emptyMaze(d[1], d[2])
    /\ icarus = << 0, 0 >>
    /\ end = << 0, 0 >>
    /\ StepsTaken = 0
    /\ pc = "new"
    /\ algo = "none"
    /\ calls = << >>
    /\ edges = {}
    /\ trees = << >>
    /\ frontiers = {}
    /\ inRooms = {}
    /\ op = "none"
    /\ arg = << >>
    /\ err = NoErr
    /\ ret = NoSurvey
    /\ moved = 0
    /\ primJoined = << >>
    /\ scores = << >>
    /\ base = 0

Init == InitSize(NavCells)

InitGen == InitSize(MaxCells)

\* createMaze: the maze is emptyMaze()
UseEmptyMaze ==
    /\ pc = "new"
    /\ rooms' = emptyMaze(Width(rooms), Height(rooms))
    /\ pc' = "done"
    /\ algo' = "emptyMaze"
    /\ UNCHANGED << navVars, genVars, srvVars >>

UseFullMaze ==
    /\ pc = "new"
    /\ rooms' = fullMaze(Width(rooms), Height(rooms))
    /\ pc' = "done"
    /\ algo' = "fullMaze"
    /\ UNCHANGED << navVars, genVars, srvVars >>

(***************************************************************************)
(* carvePassagesFrom (recursive backtracker).  A pending call is the room  *)
(* it was called for and the entries of rand.Perm(4) its loop has not      *)
(* reached (indices into DIRECTIONS).  An iteration whose neighbour is     *)
(* outside the grid or Visited changes nothing, and such a neighbour stays *)
(* so; a step of the model therefore runs the loop of the innermost call   *)
(* up to its next recursive call or its return, and a pending call keeps   *)
(* only the entries that can still carve.  Drawing the next entry from     *)
(* that set gives every permutation.                                       *)
(***************************************************************************)
AllDirs == DOMAIN DIRECTIONS

\* both RmWall calls on the two rooms of a passage; a room outside the grid is
\* the throwaway Room GetRoom returned, so nothing of the maze changes for it
RmWallAt(rs, x, y, d) ==
    IF Outside(rs, x, y) THEN rs ELSE [rs EXCEPT ![y][x] = RmWall(@, d)]

\* the test of carvePassagesFrom's loop: err == nil && !room.Visited
CanCarve(rs, x, y, d) ==
    LET g == GetRoom(rs, x + DX(d), y + DY(d))
    IN  g.err = NoErr /\ ~g.room.Visited

\* the entries of a pending call that still pass the test
Live(rs, f) == { i \in f.rem : CanCarve(rs, f.x, f.y, DIRECTIONS[i]) }

Prune(rs, st) == [k \in DOMAIN st |-> [st[k] EXCEPT !.rem = Live(rs, st[k])]]

RECURSIVE Unwind(_)
\* a call whose loop has nothing left to carve runs to its end and returns
Unwind(st) ==
    IF st # << >> /\ st[Len(st)].rem = {}
    THEN Unwind(SubSeq(st, 1, Len(st) - 1))
    ELSE st

\* the body of the loop of the innermost call for direction DIRECTIONS[i], the
\* first of its permutation that passes the test
carvePassagesFrom(rs, st, i) ==
    LET top == st[Len(st)]
        d == DIRECTIONS[i]
        nx == top.x + DX(d)
        ny == top.y + DY(d)
        rest == [st EXCEPT ![Len(st)].rem = @ \ {i}]
        carved == [RmWallAt(RmWallAt(rs, top.x, top.y, d), nx, ny, OPPOSITE(d))
                      EXCEPT ![ny][nx].Visited = TRUE]
    IN  [rooms |-> carved,
         calls |-> Unwind(Prune(carved, Append(rest, [x |-> nx, y |-> ny, rem |-> AllDirs])))]

CarveStart ==
    /\ pc = "new"
    /\ rooms' = fullMaze(Width(rooms), Height(rooms))
    /\ \E c \in Cells(rooms) :
          calls' = Unwind(Prune(rooms', << [x |-> c[1], y |-> c[2], rem |-> AllDirs] >>))
    /\ pc' = IF calls' = << >> THEN "done" ELSE "carve"
    /\ algo' = "carvePassagesFrom"
    /\ UNCHANGED << navVars, edges, trees, frontiers, inRooms, primJoined, srvVars >>

CarveStep ==
    /\ pc = "carve"
    /\ \E i \in calls[Len(calls)].rem :
          LET r == carvePassagesFrom(rooms, calls, i)
          IN  /\ rooms' = r.rooms
              /\ calls' = r.calls
              /\ pc' = IF r.calls = << >> THEN "done" ELSE "carve"
    /\ UNCHANGED << navVars, algo, edges, trees, frontiers, inRooms, primJoined, srvVars >>

(***************************************************************************)
(* kruskal.  The bitmap is keyed by room identity: a room of the grid is   *)
(* its coordinate; a room outside the grid is the fresh Room GetRoom       *)
(* returns, which only the one edge that leads to that coordinate ever     *)
(* sees, so the coordinate identifies it too.                              *)
(***************************************************************************)
Nil == << >>

\* the edges kruskal collects: every room with DIRECTIONS[0:2]
kruskalEdges(rs) == { << c[1], c[2], DIRECTIONS[i] >> : c \in Cells(rs), i \in 1 .. 2 }

\* trees[r] = &tree{} when the bitmap has no tree for r
WithTree(t, r) ==
    [k \in DOMAIN t \cup {r} |-> IF k \in DOMAIN t THEN t[k] ELSE [parent |-> Nil]]

RECURSIVE root(_, _)
root(t, n) == IF t[n].parent = Nil THEN n ELSE root(t, t[n].parent)

isConnected(t, cr, nr) == root(t, cr) = root(t, nr)

\* connect that re-parents nr itself, not the root of its tree
connect_NotRoot(t, cr, nr) == [t EXCEPT ![nr].parent = cr]

connect(t, cr, nr) == [t EXCEPT ![root(t, nr)].parent = cr]

\* the iteration without the isConnected test
kruskalEdge_NoTest(rs, t, e) ==
    LET x == e[1]
        y == e[2]
        d == e[3]
        nx == x + DX(d)
        ny == y + DY(d)
        cr == << x, y >>
        nr == << nx, ny >>
        t2 == WithTree(WithTree(t, cr), nr)
    IN  [rooms |-> RmWallAt(RmWallAt(rs, x, y, d), nx, ny, OPPOSITE(d)),
         trees |-> connect(t2, cr, nr)]

\* one iteration of kruskal's second loop, for the edge e
kruskalEdge(rs, t, e) ==
    LET x == e[1]
        y == e[2]
        d == e[3]
        nx == x + DX(d)
        ny == y + DY(d)
        cr == << x, y >>
        nr == << nx, ny >>
        t2 == WithTree(WithTree(t, cr), nr)
    IN  IF isConnected(t2, cr, nr)
        THEN [rooms |-> rs, trees |-> t2]
        ELSE [rooms |-> RmWallAt(RmWallAt(rs, x, y, d), nx, ny, OPPOSITE(d)),
              trees |-> connect(t2, cr, nr)]

KruskalStart ==
    /\ pc = "new"
    /\ Width(rooms) * Height(rooms) <= KruskalCells
    /\ rooms' = fullMaze(Width(rooms), Height(rooms))
    /\ edges' = kruskalEdges(rooms)
    /\ trees' = << >>
    /\ pc' = "kruskal"
    /\ algo' = "kruskal"
    /\ UNCHANGED << navVars, calls, frontiers, inRooms, primJoined, srvVars >>

KruskalStep ==
    /\ pc = "kruskal"
    /\ \E e \in edges :
          LET r == kruskalEdge(rooms, trees, e)
          IN  /\ rooms' = r.rooms
              /\ trees' = r.trees
              /\ edges' = edges \ {e}
              /\ pc' = IF edges \ {e} = {} THEN "done" ELSE "kruskal"
    /\ UNCHANGED << navVars, algo, calls, frontiers, inRooms, primJoined, srvVars >>

(***************************************************************************)
(* prim.  frontiers and in are maps keyed by room; a room of the grid is   *)
(* its coordinate.  The two loops over the map neighbors run in the order  *)
(* of a Go map iteration, which the language leaves open.                  *)
(***************************************************************************)
neighbors(rs, x, y) ==
    { c \in { << x, y - 1 >>, << x - 1, y >>, << x, y + 1 >>, << x + 1, y >> } :
        GetRoom(rs, c[1], c[2]).err = NoErr }

direction(x, y, nx, ny) ==
    IF x < nx THEN E
    ELSE IF x > nx THEN W
    ELSE IF y < ny THEN S
    ELSE N

\* the frontier room r joined to its neighbour n
primJoin(rs, r, n) ==
    LET d == direction(r[1], r[2], n[1], n[2])
    IN  RmWallAt(RmWallAt(rs, r[1], r[2], d), n[1], n[2], OPPOSITE(d))

\* the neighbours the first loop over the map neighbors can stop at, r being
\* the room picked: any neighbour that is in (Nil: the loop ends without one)
primConnect(rs, inr, r) ==
    LET cands == { n \in neighbors(rs, r[1], r[2]) : n \in inr }
    IN  IF cands = {} THEN {Nil} ELSE cands

\* the second loop adds every neighbour of r, included or not
primFrontiers_AllNeighbors(rs, fr, inr, r) ==
    (fr \ {r}) \cup neighbors(rs, r[1], r[2])

\* the frontier after r is taken out and the second loop over neighbors has run
primFrontiers(rs, fr, inr, r) ==
    (fr \ {r}) \cup (neighbors(rs, r[1], r[2]) \ inr)

PrimStart ==
    /\ pc = "new"
    /\ rooms' = emptyMaze(Width(rooms), Height(rooms))
    /\ \E c \in Cells(rooms) :
          /\ frontiers' = {c} \cup neighbors(rooms, c[1], c[2])
          /\ inRooms' = {c}
    /\ primJoined' = << >>
    /\ pc' = "prim"
    /\ algo' = "prim"
    /\ UNCHANGED << navVars, calls, edges, trees, srvVars >>

PrimStep ==
    /\ pc = "prim"
    /\ \E r \in frontiers :
          LET in1 == inRooms \cup {r}
              f1 == primFrontiers(rooms, frontiers, in1, r)
          IN  /\ inRooms' = in1
              /\ \E n \in primConnect(rooms, in1, r) :
                    /\ rooms' = IF n = Nil THEN rooms ELSE primJoin(rooms, r, n)
                    /\ primJoined' = IF n = Nil \/ f1 = {} THEN << >> ELSE << r, n >>
              /\ frontiers' = f1
              /\ pc' = IF f1 = {} THEN "done" ELSE "prim"
    /\ UNCHANGED << navVars, algo, calls, edges, trees, srvVars >>

(***************************************************************************)
(* recursiveDivision.  A pending call of divide is its region; its         *)
(* orientation is drawn by chooseOrientation right before the call runs.   *)
(***************************************************************************)
HORIZONTAL == 1
VERTICAL == 2

\* the orientations chooseOrientation(w, h) can return
chooseOrientation(w, h) ==
    IF w < h THEN {HORIZONTAL}
    ELSE IF w > h THEN {VERTICAL}
    ELSE {HORIZONTAL, VERTICAL}

\* rand.Intn(n): 0 .. n-1
Intn(n) == 0 .. n - 1

AddWallAt(rs, x, y, d) ==
    IF Outside(rs, x, y) THEN rs ELSE [rs EXCEPT ![y][x] = AddWall(@, d)]

\* a horizontal cut that leaves no gap
HorizontalLine_NoGap(rs, f, wy, px) ==
    [y \in DOMAIN rs |-> [x \in DOMAIN rs[y] |->
        IF y = wy /\ x >= f.x /\ x - f.x < f.width
        THEN AddWall(rs[y][x], S) ELSE rs[y][x]]]

\* the wall line of a horizontal cut: S on every room of row wy but the gap px
HorizontalLine(rs, f, wy, px) ==
    [y \in DOMAIN rs |-> [x \in DOMAIN rs[y] |->
        IF y = wy /\ x >= f.x /\ x - f.x < f.width /\ x # px
        THEN AddWall(rs[y][x], S) ELSE rs[y][x]]]

\* the wall line of a vertical cut: E on every room of column wx but the gap py
VerticalLine(rs, f, wx, py) ==
    [y \in DOMAIN rs |-> [x \in DOMAIN rs[y] |->
        IF x = wx /\ y >= f.y /\ y - f.y < f.height /\ y # py
        THEN AddWall(rs[y][x], E) ELSE rs[y][x]]]

Region(x, y, w, h) == [x |-> x, y |-> y, width |-> w, height |-> h]

Pop(st) == SubSeq(st, 1, Len(st) - 1)

\* divide whose line may fall on the last row or column of the region
divide_AnyLine(rs, st, f, orientation) ==
    IF f.width < 2 \/ f.height < 2
    THEN { [rooms |-> rs, calls |-> Pop(st)] }
    ELSE IF orientation = HORIZONTAL
    THEN { [rooms |-> HorizontalLine(rs, f, wy, px),
            calls |-> Pop(st) \o << Region(f.x, wy + 1, f.width, f.y + f.height - wy - 1),
                                    Region(f.x, f.y, f.width, wy - f.y + 1) >>] :
             wy \in { f.y + k : k \in Intn(f.height) },
             px \in { f.x + k : k \in Intn(f.width) } }
    ELSE { [rooms |-> VerticalLine(rs, f, wx, py),
            calls |-> Pop(st) \o << Region(wx + 1, f.y, f.x + f.width - wx - 1, f.height),
                                    Region(f.x, f.y, wx - f.x + 1, f.height) >>] :
             wx \in { f.x + k : k \in Intn(f.width) },
             py \in { f.y + k : k \in Intn(f.height) } }

\* what one call of divide on the region f can do, the calls it makes pending
\* (the first of them on top)
divide(rs, st, f, orientation) ==
    IF f.width < 2 \/ f.height < 2
    THEN { [rooms |-> rs, calls |-> Pop(st)] }
    ELSE IF orientation = HORIZONTAL
    THEN { [rooms |-> HorizontalLine(rs, f, wy, px),
            calls |-> Pop(st) \o << Region(f.x, wy + 1, f.width, f.y + f.height - wy - 1),
                                    Region(f.x, f.y, f.width, wy - f.y + 1) >>] :
             wy \in (IF f.height > 2 THEN { f.y + k : k \in Intn(f.height - 2) } ELSE {f.y}),
             px \in { f.x + k : k \in Intn(f.width) } }
    ELSE { [rooms |-> VerticalLine(rs, f, wx, py),
            calls |-> Pop(st) \o << Region(wx + 1, f.y, f.x + f.width - wx - 1, f.height),
                                    Region(f.x, f.y, wx - f.x + 1, f.height) >>] :
             wx \in (IF f.width > 2 THEN { f.x + k : k \in Intn(f.width - 2) } ELSE {f.x}),
             py \in { f.y + k : k \in Intn(f.height) } }

\* the borders recursiveDivision adds when divide has returned
AddBorders(rs) ==
    LET w == Width(rs)
        h == Height(rs)
    IN  [y \in DOMAIN rs |-> [x \in DOMAIN rs[y] |->
            LET r1 == IF y = h - 1 THEN AddWall(rs[y][x], S) ELSE rs[y][x]
            IN  IF x = w - 1 THEN AddWall(r1, E) ELSE r1]]

DivisionStart ==
    /\ pc = "new"
    /\ rooms' = emptyMaze(Width(rooms), Height(rooms))
    /\ calls' = << Region(0, 0, Width(rooms), Height(rooms)) >>
    /\ pc' = "divide"
    /\ algo' = "recursiveDivision"
    /\ UNCHANGED << navVars, edges, trees, frontiers, inRooms, primJoined, srvVars >>

DivideStep ==
    /\ pc = "divide"
    /\ LET f == calls[Len(calls)]
       IN  \E o \in chooseOrientation(f.width, f.height) :
           \E r \in divide(rooms, calls, f, o) :
              /\ calls' = r.calls
              /\ rooms' = IF r.calls = << >> THEN AddBorders(r.rooms) ELSE r.rooms
              /\ pc' = IF r.calls = << >> THEN "done" ELSE "divide"
    /\ UNCHANGED << navVars, algo, edges, trees, frontiers, inRooms, primJoined, srvVars >>

(***************************************************************************)
(* The HTTP handlers.  currentMaze is the maze of the state; createMaze    *)
(* returns emptyMaze() and sets neither a start nor a treasure.            *)
(***************************************************************************)
\* the :direction parameter of a request: the four the switch names, and one
\* it does not
Directions == { "left", "right", "down", "up", "north" }

\* the method the switch of MoveDirection calls
MoveOf(dir) == CASE dir = "left" -> "MoveLeft" [] dir = "right" -> "MoveRight"
                 [] dir = "down" -> "MoveDown" [] dir = "up" -> "MoveUp"

GetStartingPoint ==
    /\ rooms' = emptyMaze(Width(rooms), Height(rooms))
    /\ icarus' = << 0, 0 >>
    /\ end' = << 0, 0 >>
    /\ StepsTaken' = 0
    /\ moved' = 0
    /\ pc' = "done"
    /\ algo' = "emptyMaze"
    /\ op' = "GetStartingPoint"
    /\ arg' = << >>
    /\ err' = Discover(emptyMaze(Width(rooms), Height(rooms)), 0, 0).err
    /\ ret' = Discover(emptyMaze(Width(rooms), Height(rooms)), 0, 0).survey
    /\ base' = Len(scores)
    /\ UNCHANGED << genVars, scores >>

\* a request before any maze exists dereferences a nil currentMaze and is
\* answered by gin's recovery: it changes nothing
MoveDirection ==
    /\ pc = "done"
    /\ Len(scores) < MaxScores
    /\ \E dir \in Directions :
          LET named == dir \in { "left", "right", "down", "up" }
              r == IF named
                   THEN Move(rooms, icarus, end, StepsTaken,
                             MoveSide(MoveOf(dir)), MoveDX(MoveOf(dir)), MoveDY(MoveOf(dir)))
                   ELSE [icarus |-> icarus, StepsTaken |-> StepsTaken, err |-> NoErr]
              la == LookAround(rooms, r.icarus, end)
          IN  /\ arg' = << dir >>
              /\ icarus' = r.icarus
              /\ StepsTaken' = r.StepsTaken
              /\ moved' = IF named /\ r.err = NoErr THEN moved + 1 ELSE moved
              /\ IF r.err # NoErr
                 THEN err' = r.err /\ ret' = NoSurvey /\ scores' = scores
                 ELSE /\ err' = la.err
                      /\ ret' = la.survey
                      /\ scores' = IF la.err = ErrVictory
                                   THEN Append(scores, r.StepsTaken) ELSE scores
    /\ op' = "MoveDirection"
    /\ UNCHANGED << rooms, end, pc, algo, genVars, base >>

Generate ==
    \/ UseEmptyMaze
    \/ UseFullMaze
    \/ CarveStart
    \/ CarveStep
    \/ KruskalStart
    \/ KruskalStep
    \/ PrimStart
    \/ PrimStep
    \/ DivisionStart
    \/ DivideStep

Navigate ==
    \/ MoveLeft
    \/ MoveRight
    \/ MoveUp
    \/ MoveDown
    \/ CallLookAround
    \/ SetStartPoint
    \/ SetTreasure

Next ==
    \/ Generate
    \/ Navigate

\* a maze is built and then navigated
Spec == Init /\ [][Next]_vars

\* a maze is built and then surveyed room by room
SpecDiscover == Init /\ [][Generate \/ CallDiscover]_vars

\* the generators alone, on the larger grids
SpecGen == InitGen /\ [][Generate]_vars

\* a generator, once called, runs on until it returns
SpecGenFair == Init /\ [][Generate]_vars /\ WF_vars(Generate)

\* the server: mazes are created and move requests are answered
SpecServer == Init /\ [][GetStartingPoint \/ MoveDirection]_vars

(***************************************************************************)
(* What the claims speak of.                                               *)
(***************************************************************************)
Generators == { "carvePassagesFrom", "kruskal", "prim", "recursiveDivision" }

Built(a) == pc = "done" /\ algo = a

\* the wall flag of room c on the side a Survey field names
Flag(rs, c, side) == rs[c[2]][c[1]].Walls[side]

Toward(c, d) == << c[1] + DX(d), c[2] + DY(d) >>

\* the internal walls: a room and a direction (S or E) with a room behind it
InternalWalls(rs) ==
    { p \in Cells(rs) \X {S, E} : ~Outside(rs, Toward(p[1], p[2])[1], Toward(p[1], p[2])[2]) }

\* an internal wall is removed when both rooms have lost their flag for it
Removed(rs) ==
    { p \in InternalWalls(rs) :
        /\ ~Flag(rs, p[1], Side(p[2]))
        /\ ~Flag(rs, Toward(p[1], p[2]), Side(OPPOSITE(p[2]))) }

\* there is a passage where at least one of the two rooms has no flag
Passages(rs) ==
    { p \in InternalWalls(rs) :
        \/ ~Flag(rs, p[1], Side(p[2]))
        \/ ~Flag(rs, Toward(p[1], p[2]), Side(OPPOSITE(p[2]))) }

\* the two flags of every internal wall agree
Symmetric(rs) ==
    \A p \in InternalWalls(rs) :
        Flag(rs, p[1], Side(p[2])) = Flag(rs, Toward(p[1], p[2]), Side(OPPOSITE(p[2])))

\* a step from room c in direction d that the flags of c permit, to a room
CanStep(rs, c, d) ==
    /\ ~Flag(rs, c, Side(d))
    /\ ~Outside(rs, Toward(c, d)[1], Toward(c, d)[2])

RECURSIVE ReachFrom(_, _)
ReachFrom(rs, seen) ==
    LET more == seen \cup { Toward(p[1], p[2]) :
                              p \in { q \in seen \X {N, S, E, W} : CanStep(rs, q[1], q[2]) } }
    IN  IF more = seen THEN seen ELSE ReachFrom(rs, more)

Connected(rs) == \A c \in Cells(rs) : ReachFrom(rs, {c}) = Cells(rs)

Rooms(rs) == Width(rs) * Height(rs)

\* the room a Move* looks toward
Ahead(o) == << icarus[1] + MoveDX(o), icarus[2] + MoveDY(o) >>

(***************************************************************************)
(* C1.  As stated: a move in direction d succeeds if and only if the wall  *)
(* flag for d of Icarus's room is false, over the grids of every           *)
(* constructor and generator.                                              *)
(***************************************************************************)
C1_MoveIffNoWall ==
    [][op' \in Moves => (err' = NoErr <=> ~Flag(rooms, icarus, MoveSide(op')))]_vars

\* C1, amended: a move in direction d succeeds if and only if the wall flag
\* for d of Icarus's room is false, the room one step in d is inside the grid,
\* and Icarus is not at the treasure coordinate.
C1_MoveIffOpenInsideNotAtEnd ==
    [][op' \in Moves =>
         (err' = NoErr <=> /\ ~Flag(rooms, icarus, MoveSide(op'))
                           /\ ~Outside(rooms, Ahead(op')[1], Ahead(op')[2])
                           /\ icarus # end)]_vars

\* a move failed at the edge of a grid whose room has no wall there
C1_Witness ==
    /\ op = "MoveLeft"
    /\ err = ErrOutside
    /\ ~Flag(rooms, icarus, "Left")
    /\ icarus # end

(***************************************************************************)
(* C2.  Whenever a move returns no error, Icarus's new coordinate is the   *)
(* old one plus one step in the direction (Left x-1, Right x+1, Up y-1,    *)
(* Down y+1, the other component unchanged) and StepsTaken has grown by    *)
(* exactly 1.                                                              *)
(***************************************************************************)
C2_SuccessIsOneStep ==
    [][(op' \in Moves /\ err' = NoErr) =>
         /\ op' = "MoveLeft" => icarus' = << icarus[1] - 1, icarus[2] >>
         /\ op' = "MoveRight" => icarus' = << icarus[1] + 1, icarus[2] >>
         /\ op' = "MoveUp" => icarus' = << icarus[1], icarus[2] - 1 >>
         /\ op' = "MoveDown" => icarus' = << icarus[1], icarus[2] + 1 >>
         /\ StepsTaken' = StepsTaken + 1]_vars

\* two moves have succeeded, the second of them down
C2_Witness ==
    /\ op = "MoveDown"
    /\ err = NoErr
    /\ StepsTaken = 2

(***************************************************************************)
(* C3.  StepsTaken is 0 for a new maze; a move that returns an error       *)
(* leaves Icarus's coordinate and StepsTaken unchanged; StepsTaken never   *)
(* decreases and equals the number of moves that succeeded.                *)
(***************************************************************************)
C3_StepsCountSuccesses ==
    /\ [](pc # "done" => StepsTaken = 0)
    /\ [](StepsTaken = moved)
    /\ [][/\ StepsTaken' >= StepsTaken
          /\ (op' \in Moves /\ err' # NoErr) =>
                (icarus' = icarus /\ StepsTaken' = StepsTaken)]_vars

\* a move ran into a wall after another move had succeeded
C3_Witness ==
    /\ op \in Moves
    /\ err = ErrWall
    /\ StepsTaken = 1
    /\ moved = 1

(***************************************************************************)
(* C4.  A move from a room on the edge toward the outside of the grid      *)
(* returns an error and changes neither the coordinate nor StepsTaken,     *)
(* whatever the wall flags; Icarus's coordinate is inside the grid in      *)
(* every reachable state.                                                  *)
(***************************************************************************)
C4_NeverLeavesGrid ==
    /\ [](~Outside(rooms, icarus[1], icarus[2]))
    /\ [][(op' \in Moves /\ Outside(rooms, Ahead(op')[1], Ahead(op')[2])) =>
            (err' # NoErr /\ icarus' = icarus /\ StepsTaken' = StepsTaken)]_vars

\* a move upward from the top row of a grid with no wall there was refused
C4_Witness ==
    /\ op = "MoveUp"
    /\ err = ErrOutside
    /\ icarus[2] = 0
    /\ ~Flag(rooms, icarus, "Top")

(***************************************************************************)
(* C5.  LookAround returns ErrVictory exactly when Icarus's coordinate     *)
(* equals the treasure coordinate, whatever the path that led there.       *)
(* (LookAround changes nothing of the maze, so the state after the call    *)
(* has the coordinates the call saw.)                                      *)
(***************************************************************************)
C5_VictoryIffAtEnd ==
    op = "LookAround" => (err = ErrVictory <=> icarus = end)

\* LookAround reported victory after two moves to a treasure that was set
C5_Witness ==
    /\ op = "LookAround"
    /\ err = ErrVictory
    /\ StepsTaken = 2
    /\ rooms[end[2]][end[1]].Treasure

(***************************************************************************)
(* C6.  After each of the four generators the two flags of every internal  *)
(* wall agree.                                                             *)
(***************************************************************************)
C6_WallsSymmetric ==
    (pc = "done" /\ algo \in Generators) => Symmetric(rooms)

(***************************************************************************)
(* C7.  For each of the four generators and every grid of at least 2x2     *)
(* rooms, the finished grid is connected: every room is reachable from     *)
(* every other room by steps the wall flags permit.                        *)
(***************************************************************************)
C7_Connected ==
    (pc = "done" /\ algo \in Generators /\ Width(rooms) >= 2 /\ Height(rooms) >= 2)
        => Connected(rooms)

\* recursiveDivision has finished a grid three rooms high with walls in it
C7_Witness ==
    /\ Built("recursiveDivision")
    /\ Width(rooms) = 2
    /\ Height(rooms) = 3
    /\ Flag(rooms, << 0, 0 >>, "Bottom")
    /\ Flag(rooms, << 0, 1 >>, "Right")

(***************************************************************************)
(* C8.  carvePassagesFrom, started at any room of a fully-walled grid with *)
(* no room Visited, removes exactly width*height - 1 internal walls for    *)
(* every order of the permutations (a spanning tree).                      *)
(***************************************************************************)
C8_CarveIsSpanningTree ==
    Built("carvePassagesFrom") => Cardinality(Removed(rooms)) = Rooms(rooms) - 1

(***************************************************************************)
(* C9.  kruskal removes the wall between two rooms of the grid only when   *)
(* the union-find did not have them connected at that moment; when it      *)
(* finishes, exactly width*height - 1 internal walls are removed and every *)
(* room is connected to every other with no cycle.                         *)
(***************************************************************************)
\* the bitmap has both rooms in one tree
Joined(t, a, b) == a \in DOMAIN t /\ b \in DOMAIN t /\ root(t, a) = root(t, b)

C9_KruskalSpanningTree ==
    /\ [](Built("kruskal") =>
            /\ Cardinality(Removed(rooms)) = Rooms(rooms) - 1
            /\ Passages(rooms) = Removed(rooms)
            /\ Connected(rooms))
    /\ [][pc = "kruskal" =>
            \A p \in Passages(rooms') \ Passages(rooms) :
                ~Joined(trees, p[1], Toward(p[1], p[2]))]_vars

\* kruskal has finished a 2x3 grid, and left a wall between two of its rooms
C9_Witness ==
    /\ Built("kruskal")
    /\ Width(rooms) = 2
    /\ Height(rooms) = 3
    /\ Flag(rooms, << 0, 0 >>, "Right")
    /\ edges = {}

(***************************************************************************)
(* C10.  prim returns a perfect maze: when the frontier is empty exactly   *)
(* width*height - 1 internal walls are open in the returned grid, for      *)
(* every start room and every order of frontier picks.                     *)
(***************************************************************************)
C10_PrimIsSpanningTree ==
    Built("prim") => Cardinality(Passages(rooms)) = Rooms(rooms) - 1

(***************************************************************************)
(* C11.  After any sequence of SetStartPoint and SetTreasure calls at most *)
(* one room has its Start flag set and at most one room has its Treasure   *)
(* flag set.                                                               *)
(***************************************************************************)
StartRooms(rs) == { c \in Cells(rs) : rs[c[2]][c[1]].Start }
TreasureRooms(rs) == { c \in Cells(rs) : rs[c[2]][c[1]].Treasure }

C11_OneStartOneTreasure ==
    /\ Cardinality(StartRooms(rooms)) <= 1
    /\ Cardinality(TreasureRooms(rooms)) <= 1

(***************************************************************************)
(* C12.  SetStartPoint on a room that holds Treasure, SetTreasure on a     *)
(* room that holds Start, and either call with a coordinate outside the    *)
(* grid return an error and change no room flag and neither icarus nor     *)
(* end; no room ever holds both Start and Treasure; once both calls have   *)
(* succeeded, and before any move, icarus differs from end.                *)
(***************************************************************************)
C12_SetRefusesConflicts ==
    /\ [](StartRooms(rooms) \cap TreasureRooms(rooms) = {})
    /\ []((StartRooms(rooms) # {} /\ TreasureRooms(rooms) # {} /\ moved = 0)
             => icarus # end)
    /\ [][(op' = "SetStartPoint" /\ (Outside(rooms, arg'[1], arg'[2]) \/ arg' \in TreasureRooms(rooms)))
             => (err' # NoErr /\ rooms' = rooms /\ icarus' = icarus /\ end' = end)]_vars
    /\ [][(op' = "SetTreasure" /\ (Outside(rooms, arg'[1], arg'[2]) \/ arg' \in StartRooms(rooms)))
             => (err' # NoErr /\ rooms' = rooms /\ icarus' = icarus /\ end' = end)]_vars

\* SetTreasure was refused on the room Icarus starts in, and left end alone
C12_Witness ==
    /\ op = "SetTreasure"
    /\ err = ErrTreasureAtStart
    /\ arg = icarus
    /\ arg \in StartRooms(rooms)
    /\ end # arg

(***************************************************************************)
(* C13.  Discover(x, y) returns an error whenever (x, y) is outside the    *)
(* maze, and the room's wall survey with no error exactly when (x, y) is   *)
(* inside.  (Discover changes nothing of the maze.)                        *)
(***************************************************************************)
C13_DiscoverErrorIffOutside ==
    op = "Discover" =>
        /\ Outside(rooms, arg[1], arg[2]) <=> err # NoErr
        /\ ~Outside(rooms, arg[1], arg[2]) => ret = rooms[arg[2]][arg[1]].Walls

(***************************************************************************)
(* C14.  kruskal's candidate edges are exactly the internal edges of the   *)
(* grid; it never processes an edge whose second room is outside the grid  *)
(* and never removes an outer border wall: when it has finished, every     *)
(* border room still has its outward-facing wall.                          *)
(***************************************************************************)
\* the walls of the border: a room and a direction with no room behind it
BorderWalls(rs) ==
    { p \in Cells(rs) \X {N, S, E, W} : Outside(rs, Toward(p[1], p[2])[1], Toward(p[1], p[2])[2]) }

C14_KruskalKeepsBorder ==
    algo = "kruskal" =>
        /\ \A e \in edges : ~Outside(rooms, e[1] + DX(e[3]), e[2] + DY(e[3]))
        /\ \A p \in BorderWalls(rooms) : Flag(rooms, p[1], Side(p[2]))

(***************************************************************************)
(* C15.  During kruskal the parent links of the bitmap contain no cycle    *)
(* and lead to trees of the bitmap, so root() reaches a parentless node    *)
(* and every room with a tree belongs to exactly one set; after the edge   *)
(* (cr, nr) has been processed, with or without a connect, cr and nr are   *)
(* in one set; and two rooms in one set stay in one set (each room stays   *)
(* in the set of the root it had).                                         *)
(***************************************************************************)
\* the node reached from n by following at most k parent links
RECURSIVE Climb(_, _, _)
Climb(t, n, k) ==
    IF k = 0 \/ t[n].parent = Nil THEN n ELSE Climb(t, t[n].parent, k - 1)

Acyclic(t) ==
    /\ \A n \in DOMAIN t : t[n].parent = Nil \/ t[n].parent \in DOMAIN t
    /\ \A n \in DOMAIN t : t[Climb(t, n, Cardinality(DOMAIN t))].parent = Nil

C15_UnionFindSound ==
    /\ [](algo = "kruskal" => Acyclic(trees))
    /\ [](algo = "kruskal" =>
            \A n \in DOMAIN trees :
                root(trees, n) \in DOMAIN trees /\ trees[root(trees, n)].parent = Nil)
    /\ [][pc = "kruskal" =>
            \A e \in edges \ edges' :
                Joined(trees', << e[1], e[2] >>, << e[1] + DX(e[3]), e[2] + DY(e[3]) >>)]_vars
    /\ [][pc = "kruskal" =>
            \A a \in DOMAIN trees : Joined(trees', a, root(trees, a))]_vars

\* kruskal has finished a 2x3 grid and a room is two parent links below a tree
C15_Witness ==
    /\ Built("kruskal")
    /\ Width(rooms) = 2
    /\ Height(rooms) = 3
    /\ \E n \in DOMAIN trees :
          /\ trees[n].parent # Nil
          /\ trees[trees[n].parent].parent # Nil

(***************************************************************************)
(* C16.  A call of divide on a region at least 2 wide and 2 high adds a    *)
(* wall (S for a horizontal cut, E for a vertical one) to every room but   *)
(* one of one row or column of the region, and to no other room; the line  *)
(* is inside the region, and the two regions it recurses into are          *)
(* non-empty, disjoint, cover the region, and lie on the two sides of the  *)
(* line.                                                                   *)
(***************************************************************************)
RegionCells(f) ==
    { << x, y >> : x \in f.x .. f.x + f.width - 1, y \in f.y .. f.y + f.height - 1 }

\* the wall flags a step has set
Added(rs, rs2) ==
    { p \in Cells(rs) \X {"Top", "Bottom", "Left", "Right"} :
        Flag(rs2, p[1], p[2]) /\ ~Flag(rs, p[1], p[2]) }

\* the step cut the region f along row wy, the gap at column px
CutHorizontal(f, wy, px, first, second) ==
    /\ Added(rooms, rooms') =
          { << << x, wy >>, "Bottom" >> : x \in (f.x .. f.x + f.width - 1) \ {px} }
    /\ RegionCells(first) = { c \in RegionCells(f) : c[2] <= wy }
    /\ RegionCells(second) = { c \in RegionCells(f) : c[2] > wy }

\* the step cut the region f along column wx, the gap at row py
CutVertical(f, wx, py, first, second) ==
    /\ Added(rooms, rooms') =
          { << << wx, y >>, "Right" >> : y \in (f.y .. f.y + f.height - 1) \ {py} }
    /\ RegionCells(first) = { c \in RegionCells(f) : c[1] <= wx }
    /\ RegionCells(second) = { c \in RegionCells(f) : c[1] > wx }

C16_DivisionLine ==
    [][(pc = "divide" /\ calls[Len(calls)].width >= 2 /\ calls[Len(calls)].height >= 2) =>
          LET f == calls[Len(calls)]
              first == calls'[Len(calls')]
              second == calls'[Len(calls') - 1]
          IN  /\ Len(calls') = Len(calls) + 1
              /\ Pop(Pop(calls')) = Pop(calls)
              /\ RegionCells(first) # {}
              /\ RegionCells(second) # {}
              /\ RegionCells(first) \cap RegionCells(second) = {}
              /\ RegionCells(first) \cup RegionCells(second) = RegionCells(f)
              /\ \/ \E wy \in f.y .. f.y + f.height - 1 : \E px \in f.x .. f.x + f.width - 1 :
                       CutHorizontal(f, wy, px, first, second)
                 \/ \E wx \in f.x .. f.x + f.width - 1 : \E py \in f.y .. f.y + f.height - 1 :
                       CutVertical(f, wx, py, first, second)]_vars

\* the second cut of a 2x4 grid is pending: the first left its gap at (1, 0)
C16_Witness ==
    /\ pc = "divide"
    /\ Width(rooms) = 2
    /\ Height(rooms) = 4
    /\ Len(calls) = 2
    /\ Flag(rooms, << 0, 0 >>, "Bottom")
    /\ ~Flag(rooms, << 1, 0 >>, "Bottom")

ScanOrder == << N, W, S, E >>

\* the first neighbour of r in scan order that is in inr
FirstIncluded(r, inr) ==
    LET hits == { i \in 1 .. 4 : Toward(r, ScanOrder[i]) \in inr }
    IN  Toward(r, ScanOrder[CHOOSE i \in hits : \A j \in hits : i <= j])

C17_PrimJoinsFirstInScanOrder ==
    (algo = "prim" /\ primJoined # << >>) =>
        primJoined[2] = FirstIncluded(primJoined[1], inRooms)

(***************************************************************************)
(* C20.  For the maze GetStartingPoint created last, MoveDirection has     *)
(* appended to scores at most once, and only after a move that landed      *)
(* Icarus on the treasure.                                                 *)
(***************************************************************************)
C20_ScoredOncePerMaze ==
    /\ Len(scores) - base <= 1
    /\ Len(scores) > base => moved > 0

(***************************************************************************)
(* C18.  Every generator, once called, returns, on every grid and for      *)
(* every sequence of random choices.  divide recurses only on a region at  *)
(* least 2 wide and 2 high, and then into two strictly smaller regions;    *)
(* prim returns with the frontier empty and every room included;           *)
(* carvePassagesFrom returns with every room entered (Visited, but for the *)
(* room it started in); kruskal takes one edge out of its candidates at    *)
(* each iteration and returns when none is left.                           *)
(***************************************************************************)
Running == { "carve", "kruskal", "prim", "divide" }

Area(f) == f.width * f.height

C18_GeneratorsTerminate ==
    /\ (pc \in Running) ~> (pc = "done")
    /\ [][pc = "divide" =>
            LET f == calls[Len(calls)]
            IN  IF f.width < 2 \/ f.height < 2
                THEN calls' = Pop(calls)
                ELSE /\ Len(calls') = Len(calls) + 1
                     /\ Area(calls'[Len(calls')]) < Area(f)
                     /\ Area(calls'[Len(calls') - 1]) < Area(f)]_vars
    /\ [](Built("prim") => (frontiers = {} /\ inRooms = Cells(rooms)))
    /\ [](Built("carvePassagesFrom") =>
            Cardinality({ c \in Cells(rooms) : ~rooms[c[2]][c[1]].Visited }) <= 1)
    /\ [][pc = "kruskal" =>
            (edges' \subseteq edges /\ Cardinality(edges \ edges') = 1)]_vars
    /\ [](Built("kruskal") => edges = {})

\* prim has returned on a 2x2 grid
C18_Witness ==
    /\ Built("prim")
    /\ Width(rooms) = 2
    /\ Height(rooms) = 2
    /\ inRooms = Cells(rooms)

====
